---- MODULE Spec2Model ----
(***************************************************************************)
(* The patch reconciliation engine of FileHit: matched tree nodes of one   *)
(* file are instrumented so that writes to $value, append and prepend are  *)
(* recorded as pending updates, and the action recorded with               *)
(* project.recordAction (doReplace) rewrites the file content from them.   *)
(*                                                                         *)
(* Text is a sequence of one-character strings; offsets are 0-based as in  *)
(* the source, sequence indices 1-based.                                   *)
(***************************************************************************)
EXTENDS Integers, Sequences, FiniteSets, TLC

\* ---------------------------------------------------------------- bounds

\* Longest file content.
MaxContentLen == 3

\* Most mutation calls (set $value, append, prepend) in one run.
MaxUpdates == 2

\* Characters of file content.
ContentChars == {"a", "b"}

\* Values written to $value: as long as, shorter and longer than the value
\* of a node, holding a node's value inside, and one that is a replacement
\* pattern of String.prototype.replace.
NewValues == { <<"b">>, <<"a", "b">>, <<"$", "$">> }

\* Texts handed to append and prepend.
InsertTexts == { <<"b">>, <<"$", "$">> }

Strs(chars, n) == UNION { [1..k -> chars] : k \in 0..n }

Min(a, b) == IF a < b THEN a ELSE b

\* ------------------------------------------------- String.prototype model

\* s.substr(start)
Substr(s, start) ==
    IF start >= Len(s) THEN <<>> ELSE SubSeq(s, start + 1, Len(s))

\* s.substr(0, length)
SubstrTo(s, length) == SubSeq(s, 1, Min(Len(s), length))

\* s.indexOf(pat): 0-based position of the first occurrence, -1 if none.
OccursAt(s, pat, i) ==
    /\ i + Len(pat) <= Len(s)
    /\ SubSeq(s, i + 1, i + Len(pat)) = pat

IndexOf(s, pat) ==
    IF \E i \in 0..Len(s) : OccursAt(s, pat, i)
    THEN CHOOSE i \in 0..Len(s) :
            /\ OccursAt(s, pat, i)
            /\ \A j \in 0..(i - 1) : ~OccursAt(s, pat, j)
    ELSE -1

\* GetSubstitution of String.prototype.replace for a string pattern (no
\* captures): dollar-dollar gives one dollar sign and dollar-ampersand the
\* matched text; any other character stands for itself.  (The patterns
\* for the text before and after the match need characters that no text
\* of NewValues and InsertTexts holds.)
RECURSIVE GetSubstitution(_, _)
GetSubstitution(matched, replacement) ==
    IF replacement = <<>> THEN <<>>
    ELSE IF Len(replacement) >= 2 /\ replacement[1] = "$"
              /\ replacement[2] \in {"$", "&"}
    THEN LET rest == SubSeq(replacement, 3, Len(replacement))
             sub  == IF replacement[2] = "$" THEN <<"$">> ELSE matched
         IN sub \o GetSubstitution(matched, rest)
    ELSE <<replacement[1]>> \o GetSubstitution(matched, Tail(replacement))

\* s.replace(pat, rep) with a string pattern: the first occurrence only,
\* s itself when pat does not occur.
StringReplace(s, pat, rep) ==
    LET pos == IndexOf(s, pat)
    IN IF pos = -1 THEN s
       ELSE SubstrTo(s, pos)
               \o GetSubstitution(pat, rep)
               \o Substr(s, pos + Len(pat))

\* ------------------------------------------------ updates.sort(u => -u.offset)

\* The function handed to sort takes one parameter: called as
\* comparefn(a, b) it answers -a.offset and never looks at b.  (For offset 0
\* the answer is -0, which is neither below nor above 0.)
compareFn(a, b) == 0 - a.offset

\* Whenever some offset is above 0 this is not a consistent comparison
\* function (comparefn(a, a) is not 0), and the order sort leaves is then
\* whatever the engine's algorithm makes of the answers.  The two sorting
\* algorithms of the V8 engines that run this code are modelled, each as it
\* runs on an array of fewer than eleven elements.

\* V8 up to 6.x (Node up to 10): InsertionSort.  The inner loop moves a[j]
\* up while comparefn(a[j], element) > 0.
RECURSIVE InsertionInner(_, _, _)
InsertionInner(a, j, element) ==
    IF j >= 1 /\ compareFn(a[j], element) > 0
    THEN InsertionInner([a EXCEPT ![j + 1] = a[j]], j - 1, element)
    ELSE [a EXCEPT ![j + 1] = element]

RECURSIVE InsertionOuter(_, _)
InsertionOuter(a, i) ==
    IF i > Len(a) THEN a
    ELSE InsertionOuter(InsertionInner(a, i - 1, a[i]), i + 1)

InsertionSort(a) == InsertionOuter(a, 2)

\* V8 from 7.0 (Node from 11): TimSort.  Below 64 elements it is one
\* CountAndMakeRun from the start followed by BinaryInsertionSort of the
\* rest.  CountAndMakeRun takes the run as descending when
\* comparefn(a[1], a[0]) < 0 and then reverses it in place.
RECURSIVE RunEnd(_, _, _)
RunEnd(a, idx, isDescending) ==
    IF idx > Len(a) THEN idx - 1
    ELSE LET order == compareFn(a[idx], a[idx - 1])
         IN IF (isDescending /\ order >= 0) \/ (~isDescending /\ order < 0)
            THEN idx - 1
            ELSE RunEnd(a, idx + 1, isDescending)

ReverseRange(a, n) ==
    [i \in 1..Len(a) |-> IF i <= n THEN a[n + 1 - i] ELSE a[i]]

RECURSIVE BinarySearch(_, _, _, _)
BinarySearch(a, pivot, left, right) ==
    IF left < right
    THEN LET mid == left + ((right - left) \div 2)
         IN IF compareFn(pivot, a[mid]) < 0
            THEN BinarySearch(a, pivot, left, mid)
            ELSE BinarySearch(a, pivot, mid + 1, right)
    ELSE left

RECURSIVE BinaryInsertionSort(_, _)
BinaryInsertionSort(a, start) ==
    IF start > Len(a) THEN a
    ELSE LET pivot == a[start]
             left  == BinarySearch(a, pivot, 1, start)
             moved == [i \in 1..Len(a) |->
                         IF i < left \/ i > start THEN a[i]
                         ELSE IF i = left THEN pivot
                         ELSE a[i - 1]]
         IN BinaryInsertionSort(moved, start + 1)

TimSort(a) ==
    IF Len(a) < 2 THEN a
    ELSE LET isDescending == compareFn(a[2], a[1]) < 0
             runLength    == RunEnd(a, 3, isDescending)
             run          == IF isDescending THEN ReverseRange(a, runLength)
                             ELSE a
         IN BinaryInsertionSort(run, runLength + 1)

\* The orders updates.sort(u => -u.offset) can leave the array in.
SortOutcomes(a) == { InsertionSort(a), TimSort(a) }

\* ------------------------------------------------------------------ state

VARIABLES
    content,          \* the file's content (file.getContent / setContent)
    original,         \* the content the match group was built over
    nodes,            \* the matched nodes: $offset and the $value parsed
    currentValue,     \* per match, the value its $value getter returns
    updates,          \* the pending updates, in the array's order
    calls,            \* history: the calls made on the group, in order
    flushed,          \* the recorded flush action has run
    setContentCalls,  \* number of file.setContent calls so far
    flushResult       \* outcome of the promise doReplace returned

vars == <<content, original, nodes, currentValue, updates, calls, flushed,
          setContentCalls, flushResult>>

\* The other objects of the repository, each the state of one object and of
\* the collaborators it talks to.  Every specification below runs one of
\* them and leaves the rest unused.
VARIABLES
    group,            \* a match group and its makeUpdatable()
    pred,             \* a NestedPathExpressionPredicate under evaluation
    agg,              \* one findFileMatches run
    cache,            \* a GraphClientFactory, its NodeCache and the clock
    git,              \* a GitCommandGitProject, git and the GitHub API
    slack,            \* a DefaultSlackMessageClient and its delegate
    dirs              \* a StableDirectoryManager and the file system

others == <<group, pred, agg, cache, git, slack, dirs>>

Unused == "unused"

\* Every object but those named in keep is unused.
FileUnused ==
    /\ content = <<>> /\ original = <<>> /\ nodes = <<>>
    /\ currentValue = <<>> /\ updates = <<>> /\ calls = <<>>
    /\ flushed = FALSE /\ setContentCalls = 0 /\ flushResult = "none"

RestUnused(keep) ==
    /\ IF "file"  \in keep THEN TRUE ELSE FileUnused
    /\ IF "group" \in keep THEN TRUE ELSE group = Unused
    /\ IF "pred"  \in keep THEN TRUE ELSE pred = Unused
    /\ IF "agg"   \in keep THEN TRUE ELSE agg = Unused
    /\ IF "cache" \in keep THEN TRUE ELSE cache = Unused
    /\ IF "git"   \in keep THEN TRUE ELSE git = Unused
    /\ IF "slack" \in keep THEN TRUE ELSE slack = Unused
    /\ IF "dirs"  \in keep THEN TRUE ELSE dirs = Unused

Matches == DOMAIN nodes

Update(initialValue, value, offset) ==
    [initialValue |-> initialValue, currentValue |-> value, offset |-> offset]

Call(op, m, text) == [op |-> op, match |-> m, text |-> text]

\* A file whose content holds two matched nodes, in document order, their
\* values lying where their offsets say and not overlapping.
FileInit ==
    \E c \in Strs(ContentChars, MaxContentLen) :
    \E o1 \in 0..Len(c), o2 \in 0..Len(c) :
    \E l1 \in 1..Len(c), l2 \in 1..Len(c) :
        /\ o1 + l1 <= o2
        /\ o2 + l2 <= Len(c)
        /\ content = c
        /\ original = c
        /\ nodes = << [offset |-> o1, value |-> SubSeq(c, o1 + 1, o1 + l1)],
                      [offset |-> o2, value |-> SubSeq(c, o2 + 1, o2 + l2)] >>
        /\ currentValue = [m \in 1..2 |-> nodes[m].value]
        /\ updates = <<>>
        /\ calls = <<>>
        /\ flushed = FALSE
        /\ setContentCalls = 0
        /\ flushResult = "none"

Init == FileInit /\ RestUnused({"file"})

\* ---------------------------------------------------------------- actions

\* A setter that writes the new value through to the file at once:
\* SetValue as it would be without the deferral.
SetValueWritingThrough(m, v2) ==
    /\ Len(updates) < MaxUpdates
    /\ currentValue' = [currentValue EXCEPT ![m] = v2]
    /\ updates' = Append(updates,
                         Update(nodes[m].value, v2, nodes[m].offset))
    /\ calls' = Append(calls, Call("set", m, v2))
    /\ content' = SubstrTo(content, nodes[m].offset) \o v2
                     \o Substr(content, nodes[m].offset + Len(currentValue[m]))
    /\ setContentCalls' = setContentCalls + 1
    /\ UNCHANGED <<original, nodes, flushed, flushResult>>

\* The $value setter of match m.
SetValue(m, v2) ==
    /\ Len(updates) < MaxUpdates
    /\ currentValue' = [currentValue EXCEPT ![m] = v2]
    /\ updates' = Append(updates,
                         Update(nodes[m].value, v2, nodes[m].offset))
    /\ calls' = Append(calls, Call("set", m, v2))
    /\ UNCHANGED <<content, original, nodes, flushed, setContentCalls,
                   flushResult>>

\* m.append(text)
AppendTo(m, text) ==
    /\ Len(updates) < MaxUpdates
    /\ updates' = Append(updates,
                         Update(<<>>, text,
                                nodes[m].offset + Len(currentValue[m])))
    /\ calls' = Append(calls, Call("append", m, text))
    /\ UNCHANGED <<content, original, nodes, currentValue, flushed,
                   setContentCalls, flushResult>>

\* m.prepend(text)
PrependTo(m, text) ==
    /\ Len(updates) < MaxUpdates
    /\ updates' = Append(updates, Update(<<>>, text, nodes[m].offset))
    /\ calls' = Append(calls, Call("prepend", m, text))
    /\ UNCHANGED <<content, original, nodes, currentValue, flushed,
                   setContentCalls, flushResult>>

\* A flush that builds the new content from nothing instead of from the
\* content read: InitialNewContent with the wrong start.
InitialNewContentEmpty(c) == <<>>

\* let newContent = content
InitialNewContent(c) == c

\* One turn of the loop over the updates.
ApplyUpdate(newContent, u) ==
    SubstrTo(newContent, u.offset)
        \o StringReplace(Substr(newContent, u.offset),
                         u.initialValue, u.currentValue)

RECURSIVE ApplyUpdates(_, _)
ApplyUpdates(newContent, us) ==
    IF us = <<>> THEN newContent
    ELSE ApplyUpdates(ApplyUpdate(newContent, Head(us)), Tail(us))

\* The flush action recorded with project.recordAction: doReplace.  The
\* array is sorted in place, the updates applied in the array's order and
\* the result written with file.setContent, whose promise is the result.
DoReplace ==
    /\ ~flushed
    /\ \E sorted \in SortOutcomes(updates) :
          /\ updates' = sorted
          /\ content' = ApplyUpdates(InitialNewContent(content), sorted)
    /\ calls' = Append(calls, Call("flush", 0, <<>>))
    /\ flushed' = TRUE
    /\ setContentCalls' = setContentCalls + 1
    /\ flushResult' = "resolved"
    /\ UNCHANGED <<original, nodes, currentValue>>

Next ==
    \/ \E m \in Matches, v2 \in NewValues :
          SetValue(m, v2) /\ UNCHANGED others
    \/ \E m \in Matches, text \in InsertTexts :
          AppendTo(m, text) /\ UNCHANGED others
    \/ \E m \in Matches, text \in InsertTexts :
          PrependTo(m, text) /\ UNCHANGED others
    \/ DoReplace /\ UNCHANGED others

Spec == Init /\ [][Next]_vars

TypeOK ==
    /\ content \in Seq(ContentChars \cup {"$"})
    /\ flushed \in BOOLEAN
    /\ setContentCalls \in 0..1
    /\ Len(updates) <= MaxUpdates

\* ------------------------------------------------- vocabulary of the claims

Last(sq) == sq[Len(sq)]

\* The calls made before the flush action ran (all of them while it has not).
FlushPos == CHOOSE i \in 1..Len(calls) : calls[i].op = "flush"

PreCalls == IF flushed THEN SubSeq(calls, 1, FlushPos - 1) ELSE calls

\* The updates the flush applied, in the order it applied them.
Applied == SubSeq(updates, 1, Len(PreCalls))

\* The original text before, after and between the matched regions.
EndOf(m) == nodes[m].offset + Len(nodes[m].value)

Before(m) == SubstrTo(original, nodes[m].offset)

After(m) == Substr(original, EndOf(m))

Between == SubSeq(original, EndOf(1) + 1, nodes[2].offset)

\* The original content with the region of match m holding text instead.
Spliced(m, text) == Before(m) \o text \o After(m)

IsCall(c, op, m) == c.op = op /\ c.match = m

\* C1: at flush the pending edits are applied in descending offset order,
\* whatever the order of the mutation calls: no edit is applied before an
\* edit with a higher offset.
C1_DescendingOrder ==
    flushed =>
        \A i \in 1..Len(Applied), j \in 1..Len(Applied) :
            i < j => Applied[i].offset >= Applied[j].offset

\* C2: after one set-value on each of the two (non-overlapping) matched
\* nodes, in either call order, flush writes the original content with each
\* region replaced by its node's new value and nothing else changed.
C2_TwoNodesCompose ==
    \A m \in Matches, k \in Matches :
        ( /\ flushed
          /\ m # k
          /\ Len(PreCalls) = 2
          /\ IsCall(PreCalls[1], "set", m)
          /\ IsCall(PreCalls[2], "set", k) )
        => LET w == [x \in {m, k} |->
                        IF x = m THEN PreCalls[1].text ELSE PreCalls[2].text]
           IN content = Before(1) \o w[1] \o Between \o w[2] \o After(2)

\* C3: after exactly one set-value (new value w on a node with value v at
\* offset o) and flush, the content is original[0..o) + w +
\* original[o+len(v)..], and a matched node at a higher offset keeps its
\* text, at its offset shifted by len(w) - len(v).
C3_SingleSet ==
    \A m \in Matches :
        ( /\ flushed
          /\ Len(PreCalls) = 1
          /\ IsCall(PreCalls[1], "set", m) )
        => LET w     == PreCalls[1].text
               shift == Len(w) - Len(nodes[m].value)
           IN /\ content = Spliced(m, w)
              /\ \A k \in Matches :
                    nodes[k].offset > nodes[m].offset
                    => SubSeq(content, nodes[k].offset + shift + 1,
                              EndOf(k) + shift) = nodes[k].value

\* C4: set-value, append and prepend never change the file's content and
\* never call setContent: until the flush action runs the content equals the
\* original, only the flush step changes it, and right after a set the
\* node's value reads as the value set.
C4_WritesDeferred ==
    /\ [](~flushed => content = original /\ setContentCalls = 0)
    /\ [][ /\ (content' # content \/ setContentCalls' # setContentCalls)
              => (~flushed /\ flushed' /\ Last(calls').op = "flush")
           /\ (Len(calls') > Len(calls) /\ Last(calls').op = "set")
              => currentValue'[Last(calls').match] = Last(calls').text
         ]_vars

\* Before the flush: both kinds of mutation call were made, a node reads a
\* value other than the parsed one, and the file is as it was.
C4_Witness ==
    /\ ~flushed
    /\ \E i \in 1..Len(calls) : calls[i].op = "set"
    /\ \E i \in 1..Len(calls) : calls[i].op \in {"append", "prepend"}
    /\ \E m \in Matches : currentValue[m] # nodes[m].value
    /\ content = original

\* C5: when a node's value is set more than once before flush, the flushed
\* content holds the last value set in the node's region and the text at
\* the node's offset is the value the node reads.
C5_LastValueWins ==
    \A m \in Matches :
        ( /\ flushed
          /\ Len(PreCalls) >= 2
          /\ \A i \in 1..Len(PreCalls) : IsCall(PreCalls[i], "set", m) )
        => LET vn == Last(PreCalls).text
           IN /\ content = Spliced(m, vn)
              /\ SubSeq(content, nodes[m].offset + 1,
                        nodes[m].offset + Len(vn)) = vn

\* What one set-value of w on match m followed by flush writes.
OnceFlushed(m, w) ==
    { ApplyUpdates(InitialNewContent(original), sorted) :
        sorted \in SortOutcomes(
                      << Update(nodes[m].value, w, nodes[m].offset) >>) }

\* C6: setting a node's value to w twice and flushing gives the content
\* that setting it to w once and flushing gives.
C6_SetIdempotent ==
    \A m \in Matches :
        ( /\ flushed
          /\ Len(PreCalls) = 2
          /\ IsCall(PreCalls[1], "set", m)
          /\ IsCall(PreCalls[2], "set", m)
          /\ PreCalls[1].text = PreCalls[2].text )
        => content \in OnceFlushed(m, PreCalls[1].text)

\* C7: a flush with no set-value, append or prepend call made before it
\* writes back exactly the original content.
C7_RoundTrip ==
    (flushed /\ PreCalls = <<>>)
        => (content = original /\ setContentCalls = 1)

\* The flush action has run on a group no mutation call was made on.
C7_Witness ==
    /\ flushed
    /\ PreCalls = <<>>
    /\ setContentCalls = 1
    /\ flushResult = "resolved"

\* The value match m reads after the first n of the calls before flush.
RECURSIVE ValueAfter(_, _)
ValueAfter(m, n) ==
    IF n = 0 THEN nodes[m].value
    ELSE IF IsCall(PreCalls[n], "set", m) THEN PreCalls[n].text
    ELSE ValueAfter(m, n - 1)

\* C8: append(c) on a node, made alone or after set-value calls on that
\* node, puts c right after the node's value as it stands at the time of
\* the append: flush writes the original content with the node's region
\* holding that value followed by c, all other text unchanged.
C8_AppendAfterValue ==
    \A m \in Matches :
        ( /\ flushed
          /\ Len(PreCalls) >= 1
          /\ IsCall(Last(PreCalls), "append", m)
          /\ \A i \in 1..(Len(PreCalls) - 1) : IsCall(PreCalls[i], "set", m) )
        => content = Spliced(m, ValueAfter(m, Len(PreCalls))
                                   \o Last(PreCalls).text)

\* C9: prepend(c) on a node, made alone or together with one set-value on
\* that node in either call order, puts c right at the node's offset,
\* followed by the node's value: flush writes the original content with
\* the node's region holding c and then the value, all other text unchanged.
C9_PrependBeforeValue ==
    \A m \in Matches :
        ( /\ flushed
          /\ Len(PreCalls) \in 1..2
          /\ Cardinality({i \in 1..Len(PreCalls) :
                             IsCall(PreCalls[i], "prepend", m)}) = 1
          /\ Cardinality({i \in 1..Len(PreCalls) :
                             IsCall(PreCalls[i], "set", m)})
                = Len(PreCalls) - 1 )
        => LET i == CHOOSE i \in 1..Len(PreCalls) : PreCalls[i].op = "prepend"
           IN content = Spliced(m, PreCalls[i].text
                                      \o ValueAfter(m, Len(PreCalls)))

\* Some update of us finds, when its turn comes, that its initial value
\* is not at its offset in the content as rewritten so far.
RECURSIVE Diverged(_, _)
Diverged(newContent, us) ==
    IF us = <<>> THEN FALSE
    ELSE \/ ~OccursAt(newContent, Head(us).initialValue, Head(us).offset)
         \/ Diverged(ApplyUpdate(newContent, Head(us)), Tail(us))

\* C10: when an edit's original substring is not at its offset in the
\* in-progress content, flush reports the conflict as an error and does not
\* write content as if the edit had been applied.
C10_ConflictReported ==
    (flushed /\ Diverged(original, Applied))
        => (flushResult = "rejected" /\ setContentCalls = 0)

\* The update the i-th call before flush recorded.
Recorded(i) ==
    LET c == PreCalls[i]
    IN CASE c.op = "set" ->
              Update(nodes[c.match].value, c.text, nodes[c.match].offset)
         [] c.op = "append" ->
              Update(<<>>, c.text,
                     nodes[c.match].offset + Len(ValueAfter(c.match, i - 1)))
         [] OTHER ->
              Update(<<>>, c.text, nodes[c.match].offset)

RecordedUpdates == [i \in 1..Len(PreCalls) |-> Recorded(i)]

AtOffset(us, o) ==
    LET Here(u) == u.offset = o
    IN SelectSeq(us, Here)

\* C11: edits recorded with equal offsets are applied at flush in the order
\* in which they were recorded: for every offset, the edits applied at it
\* are the edits recorded at it, in the same order.
C11_TiesInRecordedOrder ==
    flushed =>
        \A o \in {Applied[i].offset : i \in 1..Len(Applied)} :
            AtOffset(Applied, o) = AtOffset(RecordedUpdates, o)

\* ------------------------------------------------------- makeUpdatable()

\* Most makeUpdatable() calls on the group, and most mutation calls made on
\* its matches, in one run.
MaxMakeUpdatable == 2

MaxGroupEdits == 1

\* A match group as findFileMatches returns it is read-only;
\* makeUpdatable() instruments its matches (the FileHit constructor: the
\* hooks on every match and the flush action recorded with the project).
\* group.registrations counts how often that was done.
NotGroup == <<pred, agg, cache, git, slack, dirs>>

InitGroup ==
    /\ FileInit
    /\ group = [updatable |-> FALSE, registrations |-> 0]
    /\ RestUnused({"file", "group"})

CountOf(op) == Cardinality({i \in 1..Len(calls) : calls[i].op = op})

GroupEdits == Len(calls) - CountOf("makeUpdatable") - CountOf("flush")

\* A makeUpdatable() that instruments the group again on every call.
MakeUpdatableAgain ==
    /\ ~flushed
    /\ CountOf("makeUpdatable") < MaxMakeUpdatable
    /\ group' = [updatable |-> TRUE,
                 registrations |-> group.registrations + 1]
    /\ calls' = Append(calls, Call("makeUpdatable", 0, <<>>))
    /\ UNCHANGED <<content, original, nodes, currentValue, updates, flushed,
                   setContentCalls, flushResult, NotGroup>>

\* makeUpdatable(): a one-way transition, done once per group.
MakeUpdatable ==
    /\ ~flushed
    /\ CountOf("makeUpdatable") < MaxMakeUpdatable
    /\ group' = IF group.updatable THEN group
                ELSE [updatable |-> TRUE,
                      registrations |-> group.registrations + 1]
    /\ calls' = Append(calls, Call("makeUpdatable", 0, <<>>))
    /\ UNCHANGED <<content, original, nodes, currentValue, updates, flushed,
                   setContentCalls, flushResult, NotGroup>>

\* What the registered hooks record for one mutation call: every
\* registration pushes the update.
Hooked(u) == [i \in 1..group.registrations |-> u]

GroupSetValue(m, v2) ==
    /\ group.updatable /\ ~flushed
    /\ GroupEdits < MaxGroupEdits
    /\ currentValue' = [currentValue EXCEPT ![m] = v2]
    /\ updates' = updates
                     \o Hooked(Update(nodes[m].value, v2, nodes[m].offset))
    /\ calls' = Append(calls, Call("set", m, v2))
    /\ UNCHANGED <<content, original, nodes, flushed, setContentCalls,
                   flushResult, group, NotGroup>>

GroupAppend(m, text) ==
    /\ group.updatable /\ ~flushed
    /\ GroupEdits < MaxGroupEdits
    /\ updates' = updates
                     \o Hooked(Update(<<>>, text,
                                      nodes[m].offset + Len(currentValue[m])))
    /\ calls' = Append(calls, Call("append", m, text))
    /\ UNCHANGED <<content, original, nodes, currentValue, flushed,
                   setContentCalls, flushResult, group, NotGroup>>

GroupPrepend(m, text) ==
    /\ group.updatable /\ ~flushed
    /\ GroupEdits < MaxGroupEdits
    /\ updates' = updates \o Hooked(Update(<<>>, text, nodes[m].offset))
    /\ calls' = Append(calls, Call("prepend", m, text))
    /\ UNCHANGED <<content, original, nodes, currentValue, flushed,
                   setContentCalls, flushResult, group, NotGroup>>

\* The project's flush runs every recorded action, one doReplace after the
\* other: the contents and update orders k runs can leave.
RECURSIVE Flushes(_, _, _)
Flushes(c, us, k) ==
    IF k = 0 THEN { <<c, us>> }
    ELSE UNION { Flushes(ApplyUpdates(InitialNewContent(c), sorted),
                         sorted, k - 1) : sorted \in SortOutcomes(us) }

GroupFlush ==
    /\ ~flushed
    /\ \E out \in Flushes(content, updates, group.registrations) :
          /\ content' = out[1]
          /\ updates' = out[2]
    /\ calls' = Append(calls, Call("flush", 0, <<>>))
    /\ flushed' = TRUE
    /\ setContentCalls' = setContentCalls + group.registrations
    /\ flushResult' = "resolved"
    /\ UNCHANGED <<original, nodes, currentValue, group, NotGroup>>

NextGroup ==
    \/ MakeUpdatable
    \/ \E m \in Matches, v2 \in NewValues : GroupSetValue(m, v2)
    \/ \E m \in Matches, text \in InsertTexts : GroupAppend(m, text)
    \/ \E m \in Matches, text \in InsertTexts : GroupPrepend(m, text)
    \/ GroupFlush

SpecGroup == InitGroup /\ [][NextGroup]_<<vars, others>>

\* The mutation calls made before the flush.
EditsBefore ==
    LET IsEdit(c) == c.op \in {"set", "append", "prepend"}
    IN SelectSeq(PreCalls, IsEdit)

\* C12: making a group updatable twice registers the hooks and the flush
\* action once: a set-value made after records one pending edit, flush
\* applies it once, and the content is the one that making the group
\* updatable once gives.
C12_MakeUpdatableOnce ==
    ( /\ flushed
      /\ Len(PreCalls) >= 3
      /\ PreCalls[1].op = "makeUpdatable"
      /\ PreCalls[2].op = "makeUpdatable"
      /\ Len(EditsBefore) = 1
      /\ EditsBefore[1].op = "set" )
    => /\ group.registrations = 1
       /\ Len(updates) = 1
       /\ setContentCalls = 1
       /\ content \in OnceFlushed(EditsBefore[1].match, EditsBefore[1].text)

\* A group made updatable twice, then one value set, then flushed, with the
\* content changed.
C12_Witness ==
    /\ flushed
    /\ Len(PreCalls) = 3
    /\ PreCalls[1].op = "makeUpdatable"
    /\ PreCalls[2].op = "makeUpdatable"
    /\ PreCalls[3].op = "set"
    /\ content # original

\* ------------------------------------- NestedPathExpressionPredicate

\* Most nodes in a result of the engine, and in the accepted nodes handed
\* to evaluate.
MaxResultNodes == 2

MaxAccepted == 1

TreeNodes == {"n1", "n2"}

NodeValues == {"x", "y"}

\* What the expression engine answers: a failure, or a success holding the
\* matching nodes.
Results ==
    { [kind |-> "failure"] }
        \cup { [kind |-> "success", nodes |-> ns] :
                  ns \in Strs(TreeNodes, MaxResultNodes) }

IsSuccessResult(r) == r.kind = "success"

NotPred == <<vars, group, agg, cache, git, slack, dirs>>

\* A predicate holding one path expression; engine is what the engine
\* answers for that expression with each node as the root.
InitPred ==
    /\ \E ee \in [TreeNodes -> Results], vs \in [TreeNodes -> NodeValues] :
          pred = [engine |-> ee, values |-> vs, valuesBefore |-> vs,
                  nodeToTest |-> "none", returnedNodes |-> <<>>,
                  returnedNodesBefore |-> <<>>, evaluated |-> FALSE,
                  result |-> FALSE]
    /\ RestUnused({"pred"})

\* An evaluate that takes an empty success for a match.
NestedEvaluateLoose(nodeToTest, returnedNodes, ee) ==
    LET r == ee[nodeToTest]
    IN IsSuccessResult(r) /\ Len(r.nodes) >= 0

\* evaluate(nodeToTest, returnedNodes, ee)
NestedEvaluate(nodeToTest, returnedNodes, ee) ==
    LET r == ee[nodeToTest]
    IN IsSuccessResult(r) /\ Len(r.nodes) > 0

\* One call of evaluate by the engine.
Evaluate(n, acc) ==
    /\ pred' = [pred EXCEPT
                  !.nodeToTest = n,
                  !.valuesBefore = pred.values,
                  !.returnedNodesBefore = acc,
                  !.returnedNodes = acc,
                  !.evaluated = TRUE,
                  !.result = NestedEvaluate(n, acc, pred.engine)]
    /\ UNCHANGED NotPred

NextPred ==
    \E n \in TreeNodes, acc \in Strs(TreeNodes, MaxAccepted) : Evaluate(n, acc)

SpecPred == InitPred /\ [][NextPred]_<<vars, others>>

\* C13: evaluate(node, accepted, engine) answers true exactly when the
\* engine, run with node as the root and the held expression, gives a
\* success with at least one node (a failure and an empty success give
\* false), and the call changes neither the node nor the accepted nodes.
C13_NestedPredicate ==
    pred.evaluated =>
        LET r == pred.engine[pred.nodeToTest]
        IN /\ pred.result = TRUE
                <=> (r.kind = "success" /\ r.nodes # <<>>)
           /\ r.kind = "failure" => pred.result = FALSE
           /\ pred.values = pred.valuesBefore
           /\ pred.returnedNodes = pred.returnedNodesBefore

\* evaluate has answered false for an empty success while a node was
\* already accepted.
C13_Witness ==
    /\ pred.evaluated
    /\ pred.result = FALSE
    /\ pred.engine[pred.nodeToTest] = [kind |-> "success", nodes |-> <<>>]
    /\ pred.returnedNodes # <<>>

\* ------------------------------------------------------ findFileMatches

\* Most files in the project, and most matches in one file.
MaxFiles == 3

MaxMatches == 1

\* What parsing and querying one file gives: a parse failure, or the
\* number of nodes the path expression matched.
FileOutcomes ==
    { [parsed |-> FALSE, matches |-> 0] }
        \cup { [parsed |-> TRUE, matches |-> k] : k \in 0..MaxMatches }

NotAgg == <<vars, group, pred, cache, git, slack, dirs>>

\* The project lists files (in this order); each is selected by the file
\* filter or not.  One parse-and-query operation per selected file is in
\* flight.
InitAgg ==
    /\ \E n \in 1..MaxFiles :
       \E fs \in [1..n -> FileOutcomes], sel \in [1..n -> BOOLEAN] :
          agg = [files |-> fs, selected |-> sel, completed |-> <<>>,
                 status |-> "running", result |-> <<>>]
    /\ RestUnused({"agg"})

Range(sq) == {sq[i] : i \in 1..Len(sq)}

SelectedFiles == {i \in 1..Len(agg.files) : agg.selected[i]}

\* The per-file operation of file i completes; a parse failure rejects the
\* whole aggregation at once.
CompleteFile(i) ==
    /\ agg.status = "running"
    /\ i \in SelectedFiles \ Range(agg.completed)
    /\ agg' = [agg EXCEPT
                 !.completed = Append(@, i),
                 !.status = IF agg.files[i].parsed THEN @ ELSE "rejected"]
    /\ UNCHANGED NotAgg

Matching(sq) ==
    LET HasMatch(i) == agg.files[i].matches > 0
    IN SelectSeq(sq, HasMatch)

\* An aggregation that emits the groups in the order the per-file
\* operations completed.
GroupsAsCompleted == Matching(agg.completed)

\* The groups emitted: the selected files with a match, in the order of
\* the project's listing.
GroupsInListingOrder ==
    LET Completed(i) == i \in Range(agg.completed)
    IN Matching(SelectSeq([i \in 1..Len(agg.files) |-> i], Completed))

\* Every per-file operation has completed: the aggregate result is given.
ResolveMatches ==
    /\ agg.status = "running"
    /\ Range(agg.completed) = SelectedFiles
    /\ agg' = [agg EXCEPT !.status = "resolved",
                          !.result = GroupsInListingOrder]
    /\ UNCHANGED NotAgg

NextAgg ==
    \/ \E i \in 1..MaxFiles : CompleteFile(i)
    \/ ResolveMatches

SpecAgg == InitAgg /\ [][NextAgg]_<<vars, others>>

\* C14: findFileMatches returns one group for exactly the selected files
\* with at least one match, in the order in which the project lists its
\* files, whatever the order in which the per-file operations complete.
C14_ListingOrder ==
    agg.status = "resolved" =>
        /\ Range(agg.result)
              = {i \in SelectedFiles : agg.files[i].matches > 0}
        /\ \A j \in 1..Len(agg.result), k \in 1..Len(agg.result) :
              j < k => agg.result[j] < agg.result[k]

\* Resolved with two groups whose files completed in the reverse of the
\* listing order, a selected file without a match being left out.
C14_Witness ==
    /\ agg.status = "resolved"
    /\ Len(agg.result) >= 2
    /\ \E j \in 1..Len(agg.completed), k \in 1..Len(agg.completed) :
          /\ j < k
          /\ agg.completed[j] > agg.completed[k]
          /\ {agg.completed[j], agg.completed[k]} \subseteq Range(agg.result)
    /\ \E i \in SelectedFiles : agg.files[i].matches = 0

\* --------------------------------------------------- GraphClientFactory

\* The cache options, in seconds, and the time the class comment gives.
StdTTL == 60

CheckPeriod == 30

FiveMinutes == 300

\* Most check periods that pass, most calls of createGraphClient, and
\* most milliseconds that pass inside one call.
MaxTicks == 11

MaxCalls == 3

MaxLag == 1

Teams == {"T1", "T2"}

GraphUrls == {"https://graph"}

\* The two kinds of incoming message.
Events ==
    { [kind |-> "command", team |-> [id |-> t]] : t \in Teams }
        \cup { [kind |-> "event", extensions |-> [team_id |-> t]] : t \in Teams }

isCommandIncoming(event) == event.kind = "command"

TeamIdOf(event) ==
    IF isCommandIncoming(event) THEN event.team.id
    ELSE event.extensions.team_id

\* config.options: absent, or carrying the graph url.
Options ==
    { [present |-> FALSE, graphUrl |-> ""] }
        \cup { [present |-> TRUE, graphUrl |-> g] : g \in GraphUrls }

NoClient == [id |-> 0, url |-> <<>>]

NoEntry == [has |-> FALSE, t |-> 0, v |-> NoClient]

Undefined == [kind |-> "undefined", client |-> NoClient]

Null == [kind |-> "null", client |-> NoClient]

Client(c) == [kind |-> "client", client |-> c]

\* An entry of the cache is live until the clock has passed its time t.
Live(e, now) == e.has /\ ~(e.t < now)

\* NodeCache.get: the value of a live entry; an expired entry is deleted.
GetValue(data, key, now) ==
    IF Live(data[key], now) THEN Client(data[key].v) ELSE Undefined

GetData(data, key, now) ==
    IF Live(data[key], now) THEN data
    ELSE [data EXCEPT ![key] = NoEntry]

\* NodeCache.set with the standard time to live.
SetData(data, key, value, now) ==
    [data EXCEPT ![key] = [has |-> TRUE, t |-> now + StdTTL * 1000, v |-> value]]

NoCall ==
    [called |-> FALSE, teamId |-> "", options |-> [present |-> FALSE, graphUrl |-> ""],
     at |-> 0, cached |-> NoClient, madeBefore |-> [client |-> NoClient, at |-> 0],
     createdBefore |-> 0, dataBefore |-> [t \in Teams |-> NoEntry],
     returned |-> Undefined, dataAfter |-> [t \in Teams |-> NoEntry]]

NotCache == <<vars, group, pred, agg, git, slack, dirs>>

InitCache ==
    /\ cache = [now |-> 0, ticks |-> 0, calls |-> 0, created |-> 0,
                data |-> [t \in Teams |-> NoEntry],
                made |-> [t \in Teams |-> [client |-> NoClient, at |-> 0]],
                last |-> NoCall]
    /\ RestUnused({"cache"})

\* A check period passes and the cache's timer deletes what has expired.
Tick ==
    /\ cache.ticks < MaxTicks
    /\ LET now == cache.now + CheckPeriod * 1000
       IN cache' = [cache EXCEPT
                      !.now = now,
                      !.ticks = @ + 1,
                      !.data = [t \in Teams |->
                                  IF Live(cache.data[t], now) THEN cache.data[t]
                                  ELSE NoEntry]]
    /\ UNCHANGED NotCache

\* createGraphClient; lag is the time that passes between its first and
\* its second read of the cache.
CreateGraphClient(event, options, lag) ==
    /\ cache.calls < MaxCalls
    /\ LET teamId == TeamIdOf(event)
           now1   == cache.now
           now2   == cache.now + lag
           first  == GetValue(cache.data, teamId, now1)
           data1  == GetData(cache.data, teamId, now1)
           graphClient == [id |-> cache.created + 1,
                           url |-> <<options.graphUrl, teamId>>]
           hit    == first.kind = "client"
           make   == ~hit /\ options.present
           returned == IF hit THEN GetValue(data1, teamId, now2)
                       ELSE IF make THEN Client(graphClient)
                       ELSE Null
           data2  == IF hit THEN GetData(data1, teamId, now2)
                     ELSE IF make THEN SetData(data1, teamId, graphClient, now2)
                     ELSE data1
       IN cache' = [cache EXCEPT
                      !.now = now2,
                      !.calls = @ + 1,
                      !.created = IF make THEN @ + 1 ELSE @,
                      !.data = data2,
                      !.made = IF make
                               THEN [@ EXCEPT ![teamId] =
                                        [client |-> graphClient, at |-> now2]]
                               ELSE @,
                      !.last = [called |-> TRUE, teamId |-> teamId,
                                options |-> options, at |-> now1,
                                cached |-> first.client,
                                madeBefore |-> cache.made[teamId],
                                createdBefore |-> cache.created,
                                dataBefore |-> cache.data,
                                returned |-> returned,
                                dataAfter |-> data2]]
    /\ UNCHANGED NotCache

NextCache ==
    \/ Tick
    \/ \E event \in Events, options \in Options, lag \in 0..MaxLag :
          CreateGraphClient(event, options, lag)

SpecCache == InitCache /\ [][NextCache]_<<vars, others>>

\* C15: a created client stays cached for five minutes: a call for the
\* same team less than five minutes after the creation returns that
\* instance, and a new instance is given out only after that time.
C15_FiveMinuteCache ==
    LET c == cache.last
        age == c.at - c.madeBefore.at
    IN (c.called /\ c.madeBefore.client # NoClient) =>
          /\ age < FiveMinutes * 1000 => c.returned = Client(c.madeBefore.client)
          /\ (c.returned.kind = "client" /\ c.returned.client.id > c.createdBefore)
                => age >= FiveMinutes * 1000

\* C20: createGraphClient returns null exactly when no client is cached
\* for the team and the options are absent, leaving the cache as it was;
\* a cached client is returned whatever the options; with none cached
\* and options present a new client for the url made of the graph url
\* and the team id is created, stored under the team id and returned.
C20_NullIffNothingToGive ==
    LET c == cache.last
        none == c.cached = NoClient
    IN c.called =>
          /\ (c.returned = Null) <=> (none /\ ~c.options.present)
          /\ c.returned = Null =>
                \A t \in Teams : c.dataAfter[t].has => c.dataAfter[t] = c.dataBefore[t]
          /\ ~none => c.returned = Client(c.cached)
          /\ (none /\ c.options.present) =>
                /\ c.returned.kind = "client"
                /\ c.returned.client.id = c.createdBefore + 1
                /\ c.returned.client.url = <<c.options.graphUrl, c.teamId>>
                /\ c.dataAfter[c.teamId].has
                /\ c.dataAfter[c.teamId].v = c.returned.client

\* ------------------------------------------------- GitCommandGitProject

\* Most operations called on one project.
MaxOps == 3

Owners == {"atomist"}

RepoNames == {"repo"}

BranchNames == {"feature"}

Remotes == {<<"https://example.org/repo.git">>}

Token == "token"

ApiBase == "https://api.github.com"

\* The value of a field that was never assigned; it is falsy.
Undef == "undefined"

Truthy(x) == x # Undef

GitHubRepoRef(owner, repo) == [github |-> TRUE, owner |-> owner, repo |-> repo]

OtherRepoRef == [github |-> FALSE, owner |-> "", repo |-> ""]

isGitHubRepoRef(id) == id.github

GitHubUrl(owner, repo) ==
    <<"https://", Token, "@github.com/", owner, "/", repo, ".git">>

NoBranchError == "Cannot create a PR: no branch has been created"

GitError == "git failed"

HttpError == "request failed"

\* What one operation did: the git commands it ran, the requests it
\* sent, and how its call or promise ended.
Done(op, commands, requests, status, error) ==
    [op |-> op, commands |-> commands, requests |-> requests,
     status |-> status, error |-> error, lookup |-> "none"]

\* What one operation assigned to the branch and remote fields.
LogEntry(op, branch, remote) == [op |-> op, branch |-> branch, remote |-> remote]

NotGit == <<vars, group, pred, agg, cache, slack, dirs>>

\* A project made from an existing directory; its id is a GitHub
\* reference or another one.
InitGit ==
    /\ \E id \in {OtherRepoRef} \cup {GitHubRepoRef(o, r) : o \in Owners, r \in RepoNames} :
          git = [id |-> id, branch |-> Undef, remote |-> Undef, newRepo |-> FALSE,
                 log |-> <<>>, last |-> Done("none", <<>>, <<>>, "none", "")]
    /\ RestUnused({"git"})

\* The end of a promise on one git command.
Ended(ok) == IF ok THEN "resolved" ELSE "rejected"

Failure(ok) == IF ok THEN "" ELSE GitError

GitInit(ok) ==
    /\ Len(git.log) < MaxOps
    /\ git' = [git EXCEPT
                 !.newRepo = TRUE,
                 !.branch = "master",
                 !.log = Append(@, LogEntry("init", "master", Undef)),
                 !.last = Done("init", << <<"git", "init">> >>, <<>>,
                               Ended(ok), Failure(ok))]
    /\ UNCHANGED NotGit

SetRemote(remote, ok) ==
    /\ Len(git.log) < MaxOps
    /\ git' = [git EXCEPT
                 !.remote = remote,
                 !.log = Append(@, LogEntry("setRemote", Undef, remote)),
                 !.last = Done("setRemote",
                               << <<"git", "remote", "add", "origin", remote>> >>,
                               <<>>, Ended(ok), Failure(ok))]
    /\ UNCHANGED NotGit

SetGitHubRemote(owner, repo, ok) ==
    /\ Len(git.log) < MaxOps
    /\ LET remote == GitHubUrl(owner, repo)
       IN git' = [git EXCEPT
                    !.id = GitHubRepoRef(owner, repo),
                    !.remote = remote,
                    !.log = Append(@, LogEntry("setGitHubRemote", Undef, remote)),
                    !.last = Done("setGitHubRemote",
                                  << <<"git", "remote", "add", "origin", remote>> >>,
                                  <<>>, Ended(ok), Failure(ok))]
    /\ UNCHANGED NotGit

\* git branch, and git checkout when that succeeded.
CreateBranch(name, ok1, ok2) ==
    /\ Len(git.log) < MaxOps
    /\ git' = [git EXCEPT
                 !.branch = name,
                 !.log = Append(@, LogEntry("createBranch", name, Undef)),
                 !.last = Done("createBranch",
                               << <<"git", "branch", name>> >>
                                  \o (IF ok1 THEN << <<"git", "checkout", name>> >>
                                      ELSE <<>>),
                               <<>>, Ended(ok1 /\ ok2), Failure(ok1 /\ ok2))]
    /\ UNCHANGED NotGit

Request(method, url, head) == [method |-> method, url |-> url, head |-> head]

PullsUrl(id) == <<ApiBase, "repos", id.owner, id.repo, "pulls">>

\* A raisePullRequest that does not look at the branch.
RaisePullRequestAnyway(ok) ==
    /\ Len(git.log) < MaxOps
    /\ git' = [git EXCEPT
                 !.log = Append(@, LogEntry("raisePullRequest", Undef, Undef)),
                 !.last =
                    IF isGitHubRepoRef(git.id)
                    THEN Done("raisePullRequest", <<>>,
                              << Request("POST", PullsUrl(git.id), git.branch) >>,
                              Ended(ok), IF ok THEN "" ELSE HttpError)
                    ELSE Done("raisePullRequest", <<>>, <<>>, "rejected",
                              "Not a GitHub remote")]
    /\ UNCHANGED NotGit

RaisePullRequest(ok) ==
    /\ Len(git.log) < MaxOps
    /\ git' = [git EXCEPT
                 !.log = Append(@, LogEntry("raisePullRequest", Undef, Undef)),
                 !.last =
                    IF ~Truthy(git.branch)
                    THEN Done("raisePullRequest", <<>>, <<>>, "thrown", NoBranchError)
                    ELSE IF isGitHubRepoRef(git.id)
                    THEN Done("raisePullRequest", <<>>,
                              << Request("POST", PullsUrl(git.id), git.branch) >>,
                              Ended(ok), IF ok THEN "" ELSE HttpError)
                    ELSE Done("raisePullRequest", <<>>, <<>>, "rejected",
                              "Not a GitHub remote")]
    /\ UNCHANGED NotGit

PushCommand(existing) ==
    IF existing THEN <<"git", "push", git.remote, git.branch>>
    ELSE <<"git", "push", "--set-upstream", "origin", git.branch>>

\* A push that takes the first form as soon as one of the two is set.
PushWithEither(ok) ==
    /\ Len(git.log) < MaxOps
    /\ git' = [git EXCEPT
                 !.log = Append(@, LogEntry("push", Undef, Undef)),
                 !.last = Done("push",
                               << PushCommand(Truthy(git.branch) \/ Truthy(git.remote)) >>,
                               <<>>, Ended(ok), Failure(ok))]
    /\ UNCHANGED NotGit

Push(ok) ==
    /\ Len(git.log) < MaxOps
    /\ git' = [git EXCEPT
                 !.log = Append(@, LogEntry("push", Undef, Undef)),
                 !.last = Done("push",
                               << PushCommand(Truthy(git.branch) /\ Truthy(git.remote)) >>,
                               <<>>, Ended(ok), Failure(ok))]
    /\ UNCHANGED NotGit

OrgUrl(owner) == <<ApiBase, "orgs", owner>>

OrgReposUrl(owner) == <<ApiBase, "orgs", owner, "repos">>

UserReposUrl == <<ApiBase, "user", "repos">>

\* The look-up of the organisation, then createRepo at the organisation's
\* url, and createRepo at the user's url in the catch that follows both.
\* postOk and gitOk give the outcome of createRepo at the organisation's
\* url (1) and at the user's url (2): of its POST and of the git command
\* of its setRemote.
CreateAndSetGitHubRemote(owner, name, lookupOk, postOk, gitOk) ==
    /\ Len(git.log) < MaxOps
    /\ LET remote  == GitHubUrl(owner, name)
           atOrg   == lookupOk
           orgSet  == atOrg /\ postOk[1]
           caught  == ~lookupOk \/ ~postOk[1] \/ ~gitOk[1]
           userSet == caught /\ postOk[2]
           ok      == IF caught THEN postOk[2] /\ gitOk[2] ELSE TRUE
           add     == <<"git", "remote", "add", "origin", remote>>
       IN git' = [git EXCEPT
                    !.id = GitHubRepoRef(owner, name),
                    !.remote = IF orgSet \/ userSet THEN remote ELSE @,
                    !.log = Append(@, LogEntry("createAndSetGitHubRemote", Undef,
                                        IF orgSet \/ userSet THEN remote ELSE Undef)),
                    !.last = [Done("createAndSetGitHubRemote",
                                  (IF orgSet THEN <<add>> ELSE <<>>)
                                     \o (IF userSet THEN <<add>> ELSE <<>>),
                                  << Request("GET", OrgUrl(owner), Undef) >>
                                     \o (IF atOrg
                                         THEN << Request("POST", OrgReposUrl(owner), Undef) >>
                                         ELSE <<>>)
                                     \o (IF caught
                                         THEN << Request("POST", UserReposUrl, Undef) >>
                                         ELSE <<>>),
                                  Ended(ok),
                                  IF ok THEN ""
                                  ELSE IF postOk[2] THEN GitError ELSE HttpError)
                              EXCEPT !.lookup = IF lookupOk THEN "ok" ELSE "failed"]]
    /\ UNCHANGED NotGit

NextGit ==
    \/ \E ok \in BOOLEAN : GitInit(ok)
    \/ \E remote \in Remotes, ok \in BOOLEAN : SetRemote(remote, ok)
    \/ \E owner \in Owners, repo \in RepoNames, ok \in BOOLEAN :
          SetGitHubRemote(owner, repo, ok)
    \/ \E name \in BranchNames, ok1 \in BOOLEAN, ok2 \in BOOLEAN :
          CreateBranch(name, ok1, ok2)
    \/ \E ok \in BOOLEAN : RaisePullRequest(ok)
    \/ \E ok \in BOOLEAN : Push(ok)
    \/ \E owner \in Owners, name \in RepoNames, lookupOk \in BOOLEAN,
          postOk \in [1..2 -> BOOLEAN], gitOk \in [1..2 -> BOOLEAN] :
          CreateAndSetGitHubRemote(owner, name, lookupOk, postOk, gitOk)

SpecGit == InitGit /\ [][NextGit]_<<vars, others>>

\* The operations called before the last one.
Earlier == SubSeq(git.log, 1, Len(git.log) - 1)

\* The value the most recent of the operations in lg gave to field f,
\* Undef when none of them gave one.
RECURSIVE MostRecent(_, _)
MostRecent(lg, f) ==
    IF lg = <<>> THEN Undef
    ELSE IF lg[Len(lg)][f] # Undef THEN lg[Len(lg)][f]
    ELSE MostRecent(SubSeq(lg, 1, Len(lg) - 1), f)

Posts == LET IsPost(r) == r.method = "POST" IN SelectSeq(git.last.requests, IsPost)

\* C16: createAndSetGitHubRemote posts to the user's url only when the
\* look-up of the organisation failed; when the look-up succeeded the one
\* creation request goes to the organisation's url, also when it fails.
C16_UserUrlOnlyAfterFailedLookup ==
    git.last.op = "createAndSetGitHubRemote" =>
        /\ (\E i \in 1..Len(Posts) : Posts[i].url = UserReposUrl)
              => git.last.lookup = "failed"
        /\ git.last.lookup = "ok"
              => Posts = << Request("POST", OrgReposUrl(git.id.owner), Undef) >>

\* C18: raisePullRequest posts only if init or createBranch was called
\* before it; with no branch it throws the no-branch error and sends
\* nothing; the head of the pull request is the branch of the most recent
\* init (master) or createBranch.
C18_PullRequestNeedsBranch ==
    git.last.op = "raisePullRequest" =>
        LET branched == {i \in 1..Len(Earlier) :
                            Earlier[i].op \in {"init", "createBranch"}}
        IN /\ Posts # <<>> => branched # {}
           /\ branched = {} =>
                 /\ git.last.status = "thrown"
                 /\ git.last.error = NoBranchError
                 /\ git.last.requests = <<>>
           /\ \A i \in 1..Len(Posts) :
                 /\ Posts[i].url = PullsUrl(git.id)
                 /\ Posts[i].head = MostRecent(Earlier, "branch")

\* A pull request posted after init and then createBranch: its head is
\* the created branch.
C18_Witness ==
    /\ git.last.op = "raisePullRequest"
    /\ Len(Posts) = 1
    /\ Len(Earlier) = 2
    /\ Earlier[1].op = "init"
    /\ Earlier[2].op = "createBranch"
    /\ Posts[1].head \in BranchNames

\* C19: push runs one git command: push to the remote and branch exactly
\* when both a branch (init, createBranch) and a remote (setRemote,
\* setGitHubRemote, a repository created) were set by earlier operations,
\* otherwise push with set-upstream origin; when the command fails the
\* promise rejects with its error and no other command is run.
C19_PushForm ==
    git.last.op = "push" =>
        LET branch == MostRecent(Earlier, "branch")
            remote == MostRecent(Earlier, "remote")
        IN /\ Len(git.last.commands) = 1
           /\ git.last.commands[1] =
                 IF branch # Undef /\ remote # Undef
                 THEN <<"git", "push", remote, branch>>
                 ELSE <<"git", "push", "--set-upstream", "origin", branch>>
           /\ git.last.status = "rejected" => git.last.error = GitError
           /\ git.last.requests = <<>>

\* A failed push, in the first form, to the remote of a created
\* repository.
C19_Witness ==
    /\ git.last.op = "push"
    /\ git.last.status = "rejected"
    /\ git.last.commands[1] = <<"git", "push", git.remote, git.branch>>
    /\ \E i \in 1..Len(Earlier) : Earlier[i].op = "createAndSetGitHubRemote"

\* -------------------------------------------- DefaultSlackMessageClient

\* Most calls of addressUsers and addressChannels, and most teams in the
\* answer to the ChatTeam query.
MaxAddress == 2

MaxTeams == 2

ChatTeamIds == {"T1", "T2"}

Names == {<<"a">>, <<"a", "b">>}

\* The end of graphClient.executeQuery: a failure, or the ChatTeam list.
QueryResults ==
    { [ok |-> FALSE, ChatTeam |-> <<>>] }
        \cup { [ok |-> TRUE, ChatTeam |-> ts] :
                  ts \in UNION { [1..n -> ChatTeamIds] : n \in 0..MaxTeams } }

NotAsked == [ok |-> FALSE, ChatTeam |-> <<>>]

Resolved(v) == [status |-> "resolved", value |-> v]

Rejected(e) == [status |-> "rejected", value |-> e]

\* A look-up that takes the first team of any answer that has one.
lookupFirstChatTeam(graphClient, result) ==
    IF graphClient
    THEN IF ~result.ok THEN Rejected("query failed")
         ELSE IF Len(result.ChatTeam) = 0 THEN Rejected("TypeError")
         ELSE Resolved(result.ChatTeam[1])
    ELSE Rejected("No GraphClient to lookup ChatTeam")

\* Reading the id of the first team of an empty list is a TypeError,
\* which rejects the promise.
lookupChatTeam(graphClient, result) ==
    IF graphClient
    THEN IF ~result.ok THEN Rejected("query failed")
         ELSE IF Len(result.ChatTeam) > 1 THEN Rejected("More then 1 ChatTeam found")
         ELSE IF Len(result.ChatTeam) = 0 THEN Rejected("TypeError")
         ELSE Resolved(result.ChatTeam[1])
    ELSE Rejected("No GraphClient to lookup ChatTeam")

addressSlackUsers(chatTeamId, users) ==
    [kind |-> "users", team |-> chatTeamId, names |-> users]

addressSlackChannels(chatTeamId, channels) ==
    [kind |-> "channels", team |-> chatTeamId, names |-> channels]

NotSlack == <<vars, group, pred, agg, cache, git, dirs>>

\* The client is constructed with a GraphClient or without one; delegate
\* holds what delegate.send was called with.
InitSlack ==
    /\ \E g \in BOOLEAN :
          slack = [graphClient |-> g, calls |-> 0, delegate |-> <<>>,
                   last |-> [op |-> "none", query |-> NotAsked, sent |-> <<>>,
                             status |-> "none"]]
    /\ RestUnused({"slack"})

\* lookupChatTeam, then delegate.send to the destination when it
\* resolved; sendOk is the end of the promise of delegate.send.
Addressed(op, destination, result, sendOk) ==
    LET chatTeam == lookupChatTeam(slack.graphClient, result)
        found == chatTeam.status = "resolved"
        sent == IF found THEN <<destination[chatTeam.value]>> ELSE <<>>
    IN [slack EXCEPT
          !.calls = @ + 1,
          !.delegate = @ \o sent,
          !.last = [op |-> op,
                    query |-> IF slack.graphClient THEN result ELSE NotAsked,
                    sent |-> sent,
                    status |-> IF found /\ sendOk THEN "resolved" ELSE "rejected"]]

AddressUsers(users, result, sendOk) ==
    /\ slack.calls < MaxAddress
    /\ slack' = Addressed("addressUsers",
                          [t \in ChatTeamIds |-> addressSlackUsers(t, users)],
                          result, sendOk)
    /\ UNCHANGED NotSlack

AddressChannels(channels, result, sendOk) ==
    /\ slack.calls < MaxAddress
    /\ slack' = Addressed("addressChannels",
                          [t \in ChatTeamIds |-> addressSlackChannels(t, channels)],
                          result, sendOk)
    /\ UNCHANGED NotSlack

NextSlack ==
    \/ \E users \in Names, result \in QueryResults, sendOk \in BOOLEAN :
          AddressUsers(users, result, sendOk)
    \/ \E channels \in Names, result \in QueryResults, sendOk \in BOOLEAN :
          AddressChannels(channels, result, sendOk)

SpecSlack == InitSlack /\ [][NextSlack]_<<vars, others>>

\* C17: addressUsers and addressChannels call delegate.send only with a
\* GraphClient and exactly one team in the answer to the ChatTeam query,
\* and then once, with that team's id; with no GraphClient, more than one
\* team or a failed query the promise rejects and send is not called.
C17_SendOnlyWithOneTeam ==
    LET c == slack.last
        one == slack.graphClient /\ c.query.ok /\ Len(c.query.ChatTeam) = 1
    IN c.op # "none" =>
          /\ c.sent # <<>> => one
          /\ one => /\ Len(c.sent) = 1
                    /\ c.sent[1].team = c.query.ChatTeam[1]
                    /\ c.sent[1].kind = (IF c.op = "addressUsers" THEN "users"
                                         ELSE "channels")
          /\ (~slack.graphClient \/ ~c.query.ok \/ Len(c.query.ChatTeam) > 1) =>
                /\ c.status = "rejected"
                /\ c.sent = <<>>

\* A second call, to channels, that sent once to the one team found.
C17_Witness ==
    /\ slack.calls = 2
    /\ slack.last.op = "addressChannels"
    /\ Len(slack.last.query.ChatTeam) = 1
    /\ Len(slack.last.sent) = 1
    /\ slack.last.status = "resolved"

\* ----------------------------------------------- StableDirectoryManager

\* Most calls of directoryFor and clone on one manager.
MaxDirCalls == 2

DirOwners == {"o1", "o2"}

DirRepos == {"r1"}

Shas == {"master", "abc"}

\* The paths under opts.baseDir: <<>> is baseDir itself, <<o>> is
\* baseDir/o and <<o, r>> is baseDir/o/r.
Paths ==
    {<<>>} \cup {<<o>> : o \in DirOwners}
           \cup {<<o, r>> : o \in DirOwners, r \in DirRepos}

Kinds == {"absent", "file", "dir"}

Parent(p) == SubSeq(p, 1, Len(p) - 1)

\* An entry exists only inside a directory.
FileSystems ==
    {f \in [Paths -> Kinds] :
        \A p \in Paths \ {<<>>} : f[p] # "absent" => f[Parent(p)] = "dir"}

IsUnder(q, p) == Len(p) <= Len(q) /\ SubSeq(q, 1, Len(p)) = p

pathExists(f, p) == f[p] # "absent"

mkdir(f, p) == [f EXCEPT ![p] = "dir"]

\* fs.remove: the path and everything under it.
remove(f, p) == [q \in Paths |-> IF IsUnder(q, p) THEN "absent" ELSE f[q]]

Ok(f, v) == [ok |-> TRUE, fs |-> f, value |-> v, error |-> <<>>]

Failed(f, e) == [ok |-> FALSE, fs |-> f, value |-> <<>>, error |-> e]

NotADirectory(p) == <<p, "exists but is not a directory.">>

\* A directory stays, a missing one is made, anything else is an error.
assureDirectoryExists(f, name) ==
    IF f[name] = "dir" THEN Ok(f, name)
    ELSE IF f[name] = "absent" THEN Ok(mkdir(f, name), name)
    ELSE Failed(f, NotADirectory(name))

pathFor(user, repo) == <<user, repo>>

createFreshDir(f, user, repo) ==
    LET userDir == <<user>>
        repoDir == <<user, repo>>
        base == assureDirectoryExists(f, <<>>)
        usr == assureDirectoryExists(base.fs, userDir)
    IN IF ~base.ok THEN base
       ELSE IF ~usr.ok THEN usr
       ELSE Ok(remove(usr.fs, repoDir), userDir)

CloneDirectoryInfo(path, type) == [path |-> path, type |-> type]

NoDirectory == CloneDirectoryInfo(<<>>, "none")

\* The end of directoryFor: the file system and the counter it leaves,
\* and the directory it resolved to or the error it rejected with.
Outcome(f, used, status, info, error) ==
    [fs |-> f, used |-> used, status |-> status, info |-> info, error |-> error]

existingDirectoryFor(f, owner, repo) ==
    LET expectedPath == pathFor(owner, repo)
    IN IF pathExists(f, expectedPath)
       THEN CloneDirectoryInfo(expectedPath, "actual-directory")
       ELSE NoDirectory

\* A fresh directory that is not counted.
freshDirectoryUncounted(f, used, user, repo) ==
    LET made == createFreshDir(f, user, repo)
    IN IF made.ok
       THEN Outcome(made.fs, used, "resolved",
                    CloneDirectoryInfo(made.value, "parent-directory"), <<>>)
       ELSE Outcome(made.fs, used, "rejected", NoDirectory, made.error)

freshDirectoryFor(f, used, user, repo) ==
    LET made == createFreshDir(f, user, repo)
    IN IF made.ok
       THEN Outcome(made.fs, used + 1, "resolved",
                    CloneDirectoryInfo(made.value, "parent-directory"), <<>>)
       ELSE Outcome(made.fs, used, "rejected", NoDirectory, made.error)

directoryFor(reuseDirectories, f, used, owner, repo) ==
    IF reuseDirectories
    THEN LET existing == existingDirectoryFor(f, owner, repo)
         IN IF existing # NoDirectory
            THEN Outcome(f, used, "resolved", existing, <<>>)
            ELSE freshDirectoryFor(f, used, owner, repo)
    ELSE freshDirectoryFor(f, used, owner, repo)

NotDirs == <<vars, group, pred, agg, cache, git, slack>>

NotSupportedError == "actual-directory clone directory type not yet supported"

ExecError == "exec failed"

\* What the last call did: the state it found, the end of its
\* directoryFor, the commands it ran and the end of its own promise.
DirCall(op, owner, repo, out, commands, status, error) ==
    [op |-> op, owner |-> owner, repo |-> repo,
     fsBefore |-> dirs.fs, usedBefore |-> dirs.directoriesUsed,
     out |-> out, commands |-> commands, status |-> status, error |-> error]

\* A manager over any state of the directories under baseDir, with the
\* options given to the constructor merged over the defaults.
InitDirs ==
    /\ \E f \in FileSystems, reuse \in BOOLEAN, clean \in BOOLEAN :
          dirs = [opts |-> [reuseDirectories |-> reuse, cleanOnExit |-> clean],
                  directoriesUsed |-> 0, fs |-> f, calls |-> 0, exited |-> FALSE,
                  last |-> [op |-> "none"]]
    /\ RestUnused({"dirs"})

DirectoryFor(owner, repo, branch) ==
    /\ ~dirs.exited
    /\ dirs.calls < MaxDirCalls
    /\ LET out == directoryFor(dirs.opts.reuseDirectories, dirs.fs,
                               dirs.directoriesUsed, owner, repo)
       IN dirs' = [dirs EXCEPT
                     !.calls = @ + 1,
                     !.fs = out.fs,
                     !.directoriesUsed = out.used,
                     !.last = DirCall("directoryFor", owner, repo, out, <<>>,
                                      out.status, out.error)]
    /\ UNCHANGED NotDirs

CloneCommand(owner, repo, sha) ==
    IF sha = "master"
    THEN <<"git clone --depth 1", <<"cloneUrl", owner, repo>> >>
    ELSE <<"git clone", <<"cloneUrl", owner, repo>>, "cd", repo, "git checkout", sha>>

\* clone with this manager: directoryFor, then the command run in a
\* parent directory, which makes the repository's directory when it
\* succeeds; execOk is the end of that command.
Clone(owner, repo, sha, execOk) ==
    /\ ~dirs.exited
    /\ dirs.calls < MaxDirCalls
    /\ LET out == directoryFor(dirs.opts.reuseDirectories, dirs.fs,
                               dirs.directoriesUsed, owner, repo)
           runs == out.status = "resolved" /\ out.info.type = "parent-directory"
       IN dirs' = [dirs EXCEPT
                     !.calls = @ + 1,
                     !.fs = IF runs /\ execOk
                            THEN [out.fs EXCEPT ![<<owner, repo>>] = "dir"]
                            ELSE out.fs,
                     !.directoriesUsed = out.used,
                     !.last =
                        IF out.status = "rejected"
                        THEN DirCall("clone", owner, repo, out, <<>>,
                                     "rejected", out.error)
                        ELSE IF runs
                        THEN DirCall("clone", owner, repo, out,
                                     << CloneCommand(owner, repo, sha) >>,
                                     IF execOk THEN "resolved" ELSE "rejected",
                                     IF execOk THEN <<>> ELSE <<ExecError>>)
                        ELSE DirCall("clone", owner, repo, out, <<>>,
                                     "rejected", <<NotSupportedError>>)]
    /\ UNCHANGED NotDirs

\* The process exits: the shutdown hook, registered when cleanOnExit is
\* true, removes baseDir.
Shutdown ==
    /\ ~dirs.exited
    /\ dirs' = [dirs EXCEPT
                  !.exited = TRUE,
                  !.fs = IF dirs.opts.cleanOnExit THEN remove(@, <<>>) ELSE @]
    /\ UNCHANGED NotDirs

NextDirs ==
    \/ \E owner \in DirOwners, repo \in DirRepos, branch \in Shas :
          DirectoryFor(owner, repo, branch)
    \/ \E owner \in DirOwners, repo \in DirRepos, sha \in Shas, execOk \in BOOLEAN :
          Clone(owner, repo, sha, execOk)
    \/ Shutdown

SpecDirs == InitDirs /\ [][NextDirs]_<<vars, others>>

\* The path baseDir/owner/repo of the last call.
LastPath == <<dirs.last.owner, dirs.last.repo>>

\* reuseDirectories is true and the path existed when the call was made.
Reusable ==
    dirs.opts.reuseDirectories /\ dirs.last.fsBefore[LastPath] # "absent"

\* An actual-directory at the path, nothing removed, nothing counted.
Reused ==
    /\ dirs.last.out.status = "resolved"
    /\ dirs.last.out.info = CloneDirectoryInfo(LastPath, "actual-directory")
    /\ dirs.last.out.fs = dirs.last.fsBefore
    /\ dirs.last.out.used = dirs.last.usedBefore

\* The path removed, one more directory counted, a parent-directory at
\* baseDir/owner.
Refreshed ==
    /\ dirs.last.out.fs[LastPath] = "absent"
    /\ dirs.last.out.used = dirs.last.usedBefore + 1
    /\ dirs.last.out.status = "resolved"
    /\ dirs.last.out.info
          = CloneDirectoryInfo(<<dirs.last.owner>>, "parent-directory")

\* Whatever existed before the call is still there, but for what is
\* under the paths of gone.
Kept(gone) ==
    \A p \in Paths :
        (dirs.last.fsBefore[p] # "absent" /\ \A g \in gone : ~IsUnder(p, g))
            => dirs.last.out.fs[p] = dirs.last.fsBefore[p]

\* A clone given an actual-directory fails without a git command.
CloneRefused ==
    (dirs.last.op = "clone" /\ dirs.last.out.info.type = "actual-directory") =>
        /\ dirs.last.status = "rejected"
        /\ dirs.last.error = <<NotSupportedError>>
        /\ dirs.last.commands = <<>>

Usable ==
    /\ dirs.last.fsBefore[<<>>] # "file"
    /\ dirs.last.fsBefore[<<dirs.last.owner>>] # "file"

\* The promise rejects on the first of baseDir, baseDir/owner that is
\* not a directory; nothing is removed and nothing counted.
RejectedNotADirectory ==
    /\ dirs.last.out.status = "rejected"
    /\ dirs.last.out.error =
          NotADirectory(IF dirs.last.fsBefore[<<>>] = "file" THEN <<>>
                        ELSE <<dirs.last.owner>>)
    /\ dirs.last.out.info = NoDirectory
    /\ Kept({})
    /\ dirs.last.out.used = dirs.last.usedBefore
    /\ dirs.last.commands = <<>>

====
